---------------------------- MODULE Spec2Model ----------------------------
(***************************************************************************)
(* Model of the Polar auto-detection (src/polar_detect.py) and of the LND  *)
(* REST client (src/lnd_client.py).                                        *)
(*                                                                         *)
(* A Python str is a sequence of one-character strings, so that upper(),   *)
(* lower(), expanduser(), os.path.join() and f-string formatting are       *)
(* computed character by character.  Python's None is the one-element      *)
(* sequence None below, which no str equals (its element has four          *)
(* characters).  A JSON key that may be missing is Some(v) or NoKey.       *)
(***************************************************************************)
EXTENDS Integers, Sequences, FiniteSets, TLC

VARIABLES
    env,        \* os.environ: the values of LND_DIR and REST_HOST (None: unset)
    file,       \* the descriptor file ~/.polar/networks/networks.json
    macaroons,  \* the filesystem: the node directories holding admin.macaroon
    detected,   \* the outcome of the last direct call into polar_detect
    module,     \* lnd_client's module state: LND_DIR, REST_HOST (set at import)
    client,     \* the LNDClient object (lnd_dir, rest_host, macaroon)
    http,       \* the number of HTTP requests issued by the client so far
    calls,      \* the number of _request calls made on the client so far
    resp        \* the outcome of the client's last _request call

vars == <<env, file, macaroons, detected, module, client, http, calls, resp>>

---------------------------------------------------------------------------
(* Bounds of the model.                                                    *)

MaxNets == 2        \* networks in a descriptor
MaxCalls == 3       \* _request calls on one client

---------------------------------------------------------------------------
(* Python values.                                                          *)

None == <<"None">>
EmptyStr == <<>>

\* Python truthiness of a value that is None or a str (`x and y`, `x or y`,
\* `if not x`).
Truthy(v) == v # None /\ v # EmptyStr

\* `a or b`
Or(a, b) == IF Truthy(a) THEN a ELSE b

\* A key of a JSON object: present with a value, or missing.
Some(v) == [has |-> TRUE, v |-> v]
NoKey == [has |-> FALSE, v |-> EmptyStr]
NoKeyInt == [has |-> FALSE, v |-> 0]

\* dict.get(key, default)
Get(opt, default) == IF opt.has THEN opt.v ELSE default

\* A JSON value in an "id" field: a number, a string, or the key missing.
IdInt(n) == [k |-> "int", n |-> n, s |-> EmptyStr]
IdStr(s) == [k |-> "str", n |-> 0, s |-> s]
IdMissing == [k |-> "missing", n |-> 0, s |-> EmptyStr]

---------------------------------------------------------------------------
(* Strings.                                                                *)

STARTED == <<"S", "t", "a", "r", "t", "e", "d">>
STOPPED == <<"S", "t", "o", "p", "p", "e", "d">>
LND == <<"L", "N", "D">>
POLAR_NETWORKS_DIR == <<"~", "/", ".", "p", "o", "l", "a", "r", "/", "n", "e", "t", "w", "o", "r", "k", "s", "/">>
VOLUMES == <<"v", "o", "l", "u", "m", "e", "s">>
LND_SUBDIR == <<"l", "n", "d">>
HTTPS_LOOPBACK == <<"h", "t", "t", "p", "s", ":", "/", "/", "1", "2", "7", ".", "0", ".", "0", ".", "1", ":">>
DEFAULT_DIR == <<"~", "/", "b", "o", "o", "t", "c", "a", "m", "p", "-", "c", "o", "d", "e", "/", "d", "a", "y", "3", "/", "b", "o", "b">>
DEFAULT_HOST == <<"h", "t", "t", "p", "s", ":", "/", "/", "l", "o", "c", "a", "l", "h", "o", "s", "t", ":", "8", "0", "8", "2">>
BOB == <<"b", "o", "b">>

\* The home directory of the user running the program.
HOME == <<"/", "h", "o", "m", "e", "/", "u">>

DEFAULT_REST_PORT == 8082

LowerLetters == <<"a", "b", "c", "d", "e", "i", "l", "n", "o", "r">>
UpperLetters == <<"A", "B", "C", "D", "E", "I", "L", "N", "O", "R">>

\* str.upper() and str.lower() of one character (over the model's alphabet).
UpperChar(c) ==
    IF \E i \in 1..Len(LowerLetters) : LowerLetters[i] = c
    THEN UpperLetters[CHOOSE i \in 1..Len(LowerLetters) : LowerLetters[i] = c]
    ELSE c

LowerChar(c) ==
    IF \E i \in 1..Len(UpperLetters) : UpperLetters[i] = c
    THEN LowerLetters[CHOOSE i \in 1..Len(UpperLetters) : UpperLetters[i] = c]
    ELSE c

Upper(s) == [i \in 1..Len(s) |-> UpperChar(s[i])]
Lower(s) == [i \in 1..Len(s) |-> LowerChar(s[i])]

Digits == <<"0", "1", "2", "3", "4", "5", "6", "7", "8", "9">>

IsDigit(c) == \E i \in 1..10 : Digits[i] = c
DigitValue(c) == (CHOOSE i \in 1..10 : Digits[i] = c) - 1

\* str(n) of a non-negative int, as an f-string formats it.
RECURSIVE IntToStr(_)
IntToStr(n) ==
    IF n < 10 THEN <<Digits[n + 1]>>
    ELSE IntToStr(n \div 10) \o <<Digits[(n % 10) + 1]>>

\* int(s) of a str of decimal digits.
RECURSIVE StrToInt(_)
StrToInt(s) ==
    IF Len(s) = 1 THEN DigitValue(s[1])
    ELSE 10 * StrToInt(SubSeq(s, 1, Len(s) - 1)) + DigitValue(s[Len(s)])

\* Whether int(s) parses a str: a non-empty run of decimal digits.
IsDecimal(s) == Len(s) > 0 /\ \A i \in 1..Len(s) : IsDigit(s[i])

\* os.path.expanduser(path): a leading "~" alone or followed by "/" becomes
\* the home directory.
expanduser(path) ==
    IF Len(path) > 0 /\ path[1] = "~" /\ (Len(path) = 1 \/ path[2] = "/")
    THEN HOME \o Tail(path)
    ELSE path

\* os.path.join(a, b) of posixpath.
join(a, b) ==
    IF Len(b) > 0 /\ b[1] = "/" THEN b
    ELSE IF Len(a) = 0 \/ a[Len(a)] = "/" THEN a \o b
    ELSE a \o <<"/">> \o b

---------------------------------------------------------------------------
(* src/polar_detect.py                                                     *)

\* What a call returns or raises.  kind is "none" (find_polar_node returned
\* None), "found" (it returned the dict), "pair" (auto_detect returned the
\* tuple (lnd_dir, rest_host)) or "raise" (exc names the exception).
Outcome(kind, exc, name, dir, host, port, netname) ==
    [kind |-> kind, exc |-> exc, name |-> name, lnd_dir |-> dir,
     rest_host |-> host, rest_port |-> port, network_name |-> netname]

ReturnsNone == Outcome("none", "", None, None, None, 0, None)
Raises(exc) == Outcome("raise", exc, None, None, None, 0, None)
ReturnsPair(dir, host) == Outcome("pair", "", None, dir, host, 0, None)

\* int(net.get("id", 0)) is defined: a JSON number, a missing key, or a
\* string of decimal digits; a string with a letter raises ValueError.
IntDefined(id) == id.k = "str" => IsDecimal(id.s)

\* int(net.get("id", 0))
IntOfId(id) ==
    CASE id.k = "int" -> id.n
      [] id.k = "missing" -> 0
      [] OTHER -> StrToInt(id.s)

\* f"{net_id}" of net.get("id", "")
FormatId(id) ==
    CASE id.k = "int" -> IntToStr(id.n)
      [] id.k = "missing" -> EmptyStr
      [] OTHER -> id.s

\* sort_key(net): (is_running, net_id)
sort_key(net) ==
    <<IF Get(net.status, EmptyStr) = STARTED THEN 1 ELSE 0, IntOfId(net.id)>>

\* Python's tuple comparison k1 > k2.
KeyGreater(k1, k2) == k1[1] > k2[1] \/ (k1[1] = k2[1] /\ k1[2] > k2[2])

\* sorted(networks, key=sort_key, reverse=True): descending by key, and
\* stable, so networks with equal keys keep their file order.  Position of
\* networks[i] in the result: after every network with a greater key and
\* after the earlier networks with an equal key.
SortedPos(networks, i) ==
    1 + Cardinality({j \in 1..Len(networks) :
            \/ KeyGreater(sort_key(networks[j]), sort_key(networks[i]))
            \/ (j < i /\ sort_key(networks[j]) = sort_key(networks[i]))})

networks_sorted(networks) ==
    [p \in 1..Len(networks) |->
        networks[CHOOSE i \in 1..Len(networks) : SortedPos(networks, i) = p]]

\* The two `continue` tests of the inner loop: the node is kept when neither
\* fires.
NodeMatches(node, node_name) ==
    /\ Upper(Get(node.implementation, EmptyStr)) = LND
    /\ Lower(Get(node.name, EmptyStr)) = Lower(node_name)

\* BuildResult without the ~/.polar/networks/<id> fallback: the path field is
\* used whatever it holds.
BuildResultNoFallback(network, node) ==
    LET name == Get(node.name, EmptyStr)
        network_path == Get(network.path, EmptyStr)
        lnd_dir == join(join(join(network_path, VOLUMES), LND_SUBDIR), name)
        rest_port == Get(node.rest, DEFAULT_REST_PORT)
        rest_host == HTTPS_LOOPBACK \o IntToStr(rest_port)
    IN Outcome("found", "", name, lnd_dir, rest_host, rest_port,
               Get(network.name, <<"u", "n", "k", "n", "o", "w", "n">>))

\* The dict built for a matching node of a network.
BuildResult(network, node) ==
    LET name == Get(node.name, EmptyStr)
        path == Get(network.path, EmptyStr)
        network_path ==
            IF ~Truthy(path)
            THEN expanduser(POLAR_NETWORKS_DIR \o FormatId(network.id))
            ELSE path
        lnd_dir == join(join(join(network_path, VOLUMES), LND_SUBDIR), name)
        rest_port == Get(node.rest, DEFAULT_REST_PORT)
        rest_host == HTTPS_LOOPBACK \o IntToStr(rest_port)
    IN Outcome("found", "", name, lnd_dir, rest_host, rest_port,
               Get(network.name, <<"u", "n", "k", "n", "o", "w", "n">>))

\* The first node of the network's lightning list that matches, as an index
\* (0: none).
FirstMatch(network, node_name) ==
    LET hits == {i \in 1..Len(network.lightning) :
                    NodeMatches(network.lightning[i], node_name)}
    IN IF hits = {} THEN 0 ELSE CHOOSE i \in hits : \A j \in hits : i <= j

\* The nested loops over networks_sorted: the first network, in sorted
\* order, with a matching node.
ScanNetworks(sorted, node_name) ==
    LET hits == {p \in 1..Len(sorted) : FirstMatch(sorted[p], node_name) # 0}
    IN IF hits = {} THEN ReturnsNone
       ELSE LET p == CHOOSE q \in hits : \A r \in hits : q <= r
            IN BuildResult(sorted[p],
                           sorted[p].lightning[FirstMatch(sorted[p], node_name)])

\* find_polar_node(node_name) on descriptor file f.
find_polar_node(f, node_name) ==
    IF f.kind = "missing" THEN ReturnsNone                \* not os.path.exists
    ELSE IF f.kind \in {"unreadable", "invalid"} THEN ReturnsNone
                                                 \* IOError, JSONDecodeError
    ELSE IF Len(f.networks) = 0 THEN ReturnsNone          \* not networks
    ELSE IF \E i \in 1..Len(f.networks) : ~IntDefined(f.networks[i].id)
         THEN Raises("ValueError")                        \* int() in sort_key
    ELSE ScanNetworks(networks_sorted(f.networks), node_name)

\* Whether auto_detect takes the manual override.
OverrideTaken(e) == Truthy(e.LND_DIR) /\ Truthy(e.REST_HOST)

\* auto_detect trying the descriptor before the override variables.
auto_detect_PolarFirst(e, f, node_name) ==
    LET polar == find_polar_node(f, node_name)
    IN CASE polar.kind = "found" -> ReturnsPair(polar.lnd_dir, polar.rest_host)
         [] polar.kind = "raise" -> polar
         [] OverrideTaken(e) -> ReturnsPair(expanduser(e.LND_DIR), e.REST_HOST)
         [] OTHER -> ReturnsPair(None, None)

\* auto_detect honouring a single override variable and taking the other
\* component from the descriptor.
auto_detect_PartialMerge(e, f, node_name) ==
    LET polar == find_polar_node(f, node_name)
    IN CASE OverrideTaken(e) -> ReturnsPair(expanduser(e.LND_DIR), e.REST_HOST)
         [] polar.kind = "raise" -> polar
         [] OTHER ->
              ReturnsPair(
                  IF Truthy(e.LND_DIR) THEN expanduser(e.LND_DIR)
                  ELSE IF polar.kind = "found" THEN polar.lnd_dir ELSE None,
                  IF Truthy(e.REST_HOST) THEN e.REST_HOST
                  ELSE IF polar.kind = "found" THEN polar.rest_host ELSE None)

\* auto_detect(node_name) under environment e and descriptor file f.
auto_detect(e, f, node_name) ==
    IF OverrideTaken(e)
    THEN ReturnsPair(expanduser(e.LND_DIR), e.REST_HOST)
    ELSE LET polar == find_polar_node(f, node_name)
         IN CASE polar.kind = "found" ->
                     ReturnsPair(polar.lnd_dir, polar.rest_host)
              [] polar.kind = "raise" -> polar
              [] OTHER -> ReturnsPair(None, None)

\* Whether auto_detect consults the descriptor file (calls find_polar_node,
\* whose first statement tests the file's existence).
ConsultsFile(e) == ~OverrideTaken(e)

---------------------------------------------------------------------------
(* src/lnd_client.py                                                       *)

\* bytes.hex(): two lowercase hexadecimal digits per byte.
HexDigits == <<"0", "1", "2", "3", "4", "5", "6", "7", "8", "9",
               "a", "b", "c", "d", "e", "f">>

RECURSIVE hex(_)
hex(bytes) ==
    IF Len(bytes) = 0 THEN EmptyStr
    ELSE <<HexDigits[(Head(bytes) \div 16) + 1], HexDigits[(Head(bytes) % 16) + 1]>>
         \o hex(Tail(bytes))

\* The module before its import, and after (lines 22-27): the constants
\* LND_DIR and REST_HOST.  env0 and file0 record the environment and the
\* descriptor file the import read.
NoModule == [state |-> "unloaded", LND_DIR |-> None, REST_HOST |-> None,
             env0 |-> [LND_DIR |-> None, REST_HOST |-> None],
             file0 |-> [kind |-> "missing", networks |-> <<>>]]

\* The module-level statements of lnd_client: auto_detect("bob") and the two
\* constants.  When auto_detect raises the import fails and binds nothing.
ImportedModule(e, f) ==
    LET out == auto_detect(e, f, BOB)
    IN IF out.kind = "raise"
       THEN [NoModule EXCEPT !.state = "failed"]
       ELSE [state |-> "loaded",
             LND_DIR |-> Or(out.lnd_dir, expanduser(DEFAULT_DIR)),
             REST_HOST |-> Or(out.rest_host, DEFAULT_HOST),
             env0 |-> e, file0 |-> f]

NoClient == [state |-> "none", lnd_dir |-> None, rest_host |-> None,
             macaroon |-> None, tls_cert |-> None,
             lnd_dir_arg |-> None, rest_host_arg |-> None,
             env1 |-> [LND_DIR |-> None, REST_HOST |-> None],
             file1 |-> [kind |-> "missing", networks |-> <<>>]]

\* The admin.macaroon file of a node directory.
MacaroonFile(dir, bytes) ==
    [path |-> join(join(join(join(join(dir, <<"d", "a", "t", "a">>),
                                  <<"c", "h", "a", "i", "n">>),
                             <<"b", "i", "t", "c", "o", "i", "n">>),
                        <<"r", "e", "g", "t", "e", "s", "t">>),
                   <<"a", "d", "m", "i", "n", ".", "m", "a", "c", "a", "r", "o", "o", "n">>),
     bytes |-> bytes]

\* open(macaroon_path, "rb").read().hex(), or None on FileNotFoundError.
ReadMacaroon(fs, lnd_dir) ==
    LET macaroon_path == MacaroonFile(lnd_dir, <<>>).path
    IN IF \E m \in fs : m.path = macaroon_path
       THEN hex((CHOOSE m \in fs : m.path = macaroon_path).bytes)
       ELSE None

\* LNDClient.__init__ re-running the resolver at construction instead of
\* using the module constants.
InitClientResolving(lnd_dir_arg, rest_host_arg) ==
    LET out == auto_detect(env, file, BOB)
        lnd_dir == Or(lnd_dir_arg, Or(out.lnd_dir, expanduser(DEFAULT_DIR)))
    IN [state |-> "built",
        lnd_dir |-> lnd_dir,
        rest_host |-> Or(rest_host_arg, Or(out.rest_host, DEFAULT_HOST)),
        macaroon |-> ReadMacaroon(macaroons, lnd_dir),
        tls_cert |-> join(lnd_dir, <<"t", "l", "s", ".", "c", "e", "r", "t">>),
        lnd_dir_arg |-> lnd_dir_arg, rest_host_arg |-> rest_host_arg,
        env1 |-> env, file1 |-> file]

\* LNDClient.__init__ preferring the module constants to its arguments.
InitClientModuleFirst(lnd_dir_arg, rest_host_arg) ==
    LET lnd_dir == Or(module.LND_DIR, lnd_dir_arg)
    IN [state |-> "built",
        lnd_dir |-> lnd_dir,
        rest_host |-> Or(module.REST_HOST, rest_host_arg),
        macaroon |-> ReadMacaroon(macaroons, lnd_dir),
        tls_cert |-> join(lnd_dir, <<"t", "l", "s", ".", "c", "e", "r", "t">>),
        lnd_dir_arg |-> lnd_dir_arg, rest_host_arg |-> rest_host_arg,
        env1 |-> env, file1 |-> file]

\* LNDClient.__init__(lnd_dir, rest_host): the object it builds.  The
\* arguments are kept in lnd_dir_arg and rest_host_arg, the environment and
\* the descriptor file of the moment in env1 and file1.
InitClient(lnd_dir_arg, rest_host_arg) ==
    LET lnd_dir == Or(lnd_dir_arg, module.LND_DIR)
    IN [state |-> "built",
        lnd_dir |-> lnd_dir,
        rest_host |-> Or(rest_host_arg, module.REST_HOST),
        macaroon |-> ReadMacaroon(macaroons, lnd_dir),
        tls_cert |-> join(lnd_dir, <<"t", "l", "s", ".", "c", "e", "r", "t">>),
        lnd_dir_arg |-> lnd_dir_arg, rest_host_arg |-> rest_host_arg,
        env1 |-> env, file1 |-> file]

\* What the server answers: a status and a body that is valid JSON or not,
\* or no answer (status 0: the connection failed).
ServerAnswer(status, valid, body) == [status |-> status, valid |-> valid, body |-> body]

\* The outcome of a _request call.  issued: whether an HTTP request went
\* out; url, method and json_header describe it.  kind is "return" (json is
\* the parsed body) or "raise" (exc names the exception; lnd_dir is the
\* directory the ConnectionError message names, status and body what the
\* HTTPError carries).  answer is what the server sent.
RequestOutcome(kind, exc, issued, method, url, json_header, lnd_dir, status, body, answer) ==
    [kind |-> kind, exc |-> exc, issued |-> issued, method |-> method, url |-> url,
     json_header |-> json_header, lnd_dir |-> lnd_dir, status |-> status,
     body |-> body, answer |-> answer]

NoAnswer == ServerAnswer(0, FALSE, 0)
NoResponse ==
    RequestOutcome("none", "", FALSE, "", None, FALSE, None, 0, 0, NoAnswer)

\* Response.raise_for_status() of the requests library raises HTTPError for
\* the statuses 400 to 599 and for no other.
raise_for_status(status) == 400 <= status /\ status < 600

\* The end of _request (lines 82-83) on the server's answer.
HandleAnswer(method, url, answer) ==
    IF answer.status = 0
    THEN RequestOutcome("raise", "requests.ConnectionError", TRUE, method, url,
                        method = "POST", None, 0, 0, answer)
    ELSE IF raise_for_status(answer.status)
    THEN RequestOutcome("raise", "HTTPError", TRUE, method, url, method = "POST",
                        None, answer.status, answer.body, answer)
    ELSE IF ~answer.valid
    THEN RequestOutcome("raise", "JSONDecodeError", TRUE, method, url,
                        method = "POST", None, 0, 0, answer)
    ELSE RequestOutcome("return", "", TRUE, method, url, method = "POST",
                        None, 0, answer.body, answer)

\* _request without the test of the macaroon.
RequestNoTokenTest(c, method, endpoint, answer) ==
    IF method \in {"GET", "POST", "DELETE"}
    THEN HandleAnswer(method, c.rest_host \o endpoint, answer)
    ELSE RequestOutcome("raise", "ValueError", FALSE, method,
                        c.rest_host \o endpoint, FALSE, None, 0, 0, NoAnswer)

\* _request without the call of raise_for_status.
RequestNoStatusTest(c, method, endpoint, answer) ==
    IF ~Truthy(c.macaroon)
    THEN RequestOutcome("raise", "ConnectionError", FALSE, method, None, FALSE,
                        c.lnd_dir, 0, 0, NoAnswer)
    ELSE IF method \in {"GET", "POST", "DELETE"}
    THEN IF answer.status # 0 /\ answer.valid
         THEN RequestOutcome("return", "", TRUE, method, c.rest_host \o endpoint,
                             method = "POST", None, 0, answer.body, answer)
         ELSE HandleAnswer(method, c.rest_host \o endpoint, answer)
    ELSE RequestOutcome("raise", "ValueError", FALSE, method,
                        c.rest_host \o endpoint, FALSE, None, 0, 0, NoAnswer)

\* LNDClient._request(method, endpoint, data) on client c, the server
\* answering `answer` if a request reaches it.
Request(c, method, endpoint, answer) ==
    IF ~Truthy(c.macaroon)
    THEN RequestOutcome("raise", "ConnectionError", FALSE, method, None, FALSE,
                        c.lnd_dir, 0, 0, NoAnswer)
    ELSE IF method \in {"GET", "POST", "DELETE"}
    THEN HandleAnswer(method, c.rest_host \o endpoint, answer)
    ELSE RequestOutcome("raise", "ValueError", FALSE, method,
                        c.rest_host \o endpoint, FALSE, None, 0, 0, NoAnswer)

---------------------------------------------------------------------------
(* Inputs: environments and descriptor files.                              *)

EnvDir == <<"~", "/", "n">>
EnvHost == <<"h", "t", "t", "p", "s", ":", "/", "/", "h", ":", "1">>

\* os.environ.get(...) of the two override variables: unset (None), set to
\* the empty string, or set to a value.
EnvSet == [LND_DIR : {None, EmptyStr, EnvDir}, REST_HOST : {None, EmptyStr, EnvHost}]
EnvUnset == [LND_DIR |-> None, REST_HOST |-> None]

\* Lightning-node entries of a descriptor.
NodeBob == [implementation |-> Some(LND), name |-> Some(BOB), rest |-> NoKeyInt]
NodeBobMixed ==
    [implementation |-> Some(<<"l", "n", "d">>), name |-> Some(<<"B", "o", "b">>),
     rest |-> Some(8081)]
NodeAlice ==
    [implementation |-> Some(LND), name |-> Some(<<"a", "l", "i", "c", "e">>),
     rest |-> Some(8083)]
NodeEclairBob ==
    [implementation |-> Some(<<"e", "c", "l", "a", "i", "r">>), name |-> Some(BOB),
     rest |-> Some(8084)]
NodeNoImpl == [implementation |-> NoKey, name |-> Some(BOB), rest |-> NoKeyInt]

NodeLists ==
    {<<>>, <<NodeBob>>, <<NodeAlice, NodeBobMixed, NodeBob>>,
     <<NodeEclairBob, NodeNoImpl>>}

Network(id, status, path, lightning) ==
    [id |-> id, name |-> NoKey, status |-> status, path |-> path,
     lightning |-> lightning]

\* Networks that differ in what the sort reads.
SortNetworks ==
    {Network(id, Some(st), NoKey, l) :
        id \in {IdInt(1), IdInt(2), IdStr(<<"a", "b", "c">>)},
        st \in {STARTED, STOPPED}, l \in NodeLists}

\* Networks that differ in what the directory is built from.
PathNetworks ==
    {Network(id, st, path, l) :
        id \in {IdInt(7), IdStr(<<"1", "0">>), IdMissing},
        st \in {Some(STARTED), NoKey},
        path \in {NoKey, Some(EmptyStr), Some(<<"/", "p">>)},
        l \in NodeLists}

Descriptor(networks) == [kind |-> "json", networks |-> networks]
NoDescriptor(kind) == [kind |-> kind, networks |-> <<>>]

\* Sequences of at most n elements of S.
SeqsUpTo(S, n) == UNION {[1..k -> S] : k \in 0..n}

\* The states of the descriptor file that are not a JSON document with
\* networks: missing, unreadable, not valid JSON, and no networks.
BrokenFiles ==
    {NoDescriptor("missing"), NoDescriptor("unreadable"), NoDescriptor("invalid"),
     Descriptor(<<>>)}

SortFiles == {Descriptor(ns) : ns \in SeqsUpTo(SortNetworks, MaxNets)}
PathFiles == BrokenFiles \cup {Descriptor(<<n>>) : n \in PathNetworks}

NodeNames == {BOB, <<"B", "O", "B">>}

NotCalled ==
    [op |-> "none", node_name |-> None, out |-> ReturnsNone, consulted |-> FALSE]

---------------------------------------------------------------------------
(* Direct calls into polar_detect: the specification SpecDetect.          *)

InitDetect ==
    /\ \/ env \in EnvSet /\ file \in PathFiles
       \/ env \in {EnvUnset, [LND_DIR |-> EnvDir, REST_HOST |-> None]}
          /\ file \in SortFiles
    /\ macaroons = {}
    /\ detected = NotCalled
    /\ module = NoModule
    /\ client = NoClient
    /\ http = 0
    /\ calls = 0
    /\ resp = NoResponse

CallFindPolarNode(node_name) ==
    /\ detected' = [op |-> "find_polar_node", node_name |-> node_name,
                    out |-> find_polar_node(file, node_name), consulted |-> TRUE]
    /\ UNCHANGED <<env, file, macaroons, module, client, http, calls, resp>>

CallAutoDetect(node_name) ==
    /\ detected' = [op |-> "auto_detect", node_name |-> node_name,
                    out |-> auto_detect(env, file, node_name),
                    consulted |-> ConsultsFile(env)]
    /\ UNCHANGED <<env, file, macaroons, module, client, http, calls, resp>>

NextDetect ==
    \/ \E n \in NodeNames : CallFindPolarNode(n)
    \/ \E n \in NodeNames : CallAutoDetect(n)

SpecDetect == InitDetect /\ [][NextDetect]_vars

---------------------------------------------------------------------------
(* Properties of the resolver, checked under SpecDetect.                   *)

\* The matching rule as stated: implementation "LND" and the requested name,
\* both compared case-insensitively.
IsMatch(node, node_name) ==
    /\ node.implementation.has
    /\ Lower(node.implementation.v) = <<"l", "n", "d">>
    /\ node.name.has
    /\ Lower(node.name.v) = Lower(node_name)

\* The first entry of a network, in file order, that matches (0: none).
FirstMatching(net, node_name) ==
    LET hits == {i \in 1..Len(net.lightning) : IsMatch(net.lightning[i], node_name)}
    IN IF hits = {} THEN 0 ELSE CHOOSE i \in hits : \A j \in hits : i <= j

\* The networks of the descriptor, by index, with a matching entry.
MatchingNets(f, node_name) ==
    {i \in 1..Len(f.networks) : FirstMatching(f.networks[i], node_name) # 0}

IsStarted(net) == net.status.has /\ net.status.v = STARTED

\* Network a comes before network b in the stated order: "Started" before
\* every other status, and within a status group the higher numeric id.
ComesBefore(a, b) ==
    \/ IsStarted(a) /\ ~IsStarted(b)
    \/ IsStarted(a) = IsStarted(b) /\ IntOfId(a.id) > IntOfId(b.id)

\* The result is built from the first matching entry of network i.
BuiltFrom(out, f, i, node_name) ==
    out = BuildResult(f.networks[i],
                      f.networks[i].lightning[FirstMatching(f.networks[i], node_name)])

\* C1: when more than one network has a matching node, find_polar_node
\* returns the first matching entry of a network that no other matching
\* network comes before ("Started" first, then higher numeric id).
C1_StartedThenHighestId ==
    (/\ detected.op = "find_polar_node"
     /\ file.kind = "json"
     /\ Cardinality(MatchingNets(file, detected.node_name)) > 1)
    => /\ detected.out.kind = "found"
       /\ \E i \in MatchingNets(file, detected.node_name) :
            /\ \A j \in MatchingNets(file, detected.node_name) :
                 ~ComesBefore(file.networks[j], file.networks[i])
            /\ BuiltFrom(detected.out, file, i, detected.node_name)

\* C1, on the descriptors whose ids are all numeric (int() is defined on
\* each): the order is the stated one.
C1_OrderOnNumericIds ==
    (/\ detected.op = "find_polar_node"
     /\ file.kind = "json"
     /\ \A i \in 1..Len(file.networks) : IntDefined(file.networks[i].id)
     /\ Cardinality(MatchingNets(file, detected.node_name)) > 1)
    => /\ detected.out.kind = "found"
       /\ \E i \in MatchingNets(file, detected.node_name) :
            /\ \A j \in MatchingNets(file, detected.node_name) :
                 ~ComesBefore(file.networks[j], file.networks[i])
            /\ BuiltFrom(detected.out, file, i, detected.node_name)

\* C1: a call that raised on a descriptor with two matching networks.
C1_RaisedWitness ==
    /\ detected.op = "find_polar_node"
    /\ file.kind = "json"
    /\ Cardinality(MatchingNets(file, detected.node_name)) > 1
    /\ detected.out.kind = "raise"

\* C2 (as stated): with both override variables set, auto_detect returns
\* (expanduser(LND_DIR), REST_HOST) and the descriptor file is not consulted.
C2_BothSetReturnsOverride ==
    (/\ detected.op = "auto_detect"
     /\ env.LND_DIR # None
     /\ env.REST_HOST # None)
    => /\ detected.out = ReturnsPair(expanduser(env.LND_DIR), env.REST_HOST)
       /\ ~detected.consulted

\* C2 (amended): with both override variables set to non-empty values,
\* auto_detect returns (expanduser(LND_DIR), REST_HOST) and the descriptor
\* file is not consulted, whatever the file holds.
C2_BothNonEmptyReturnsOverride ==
    (/\ detected.op = "auto_detect"
     /\ env.LND_DIR \notin {None, EmptyStr}
     /\ env.REST_HOST \notin {None, EmptyStr})
    => /\ detected.out = ReturnsPair(expanduser(env.LND_DIR), env.REST_HOST)
       /\ ~detected.consulted

\* C2: auto_detect was called with both overrides non-empty while the
\* descriptor exists and holds a matching node.
C2_Witness ==
    /\ detected.op = "auto_detect"
    /\ env.LND_DIR \notin {None, EmptyStr}
    /\ env.REST_HOST \notin {None, EmptyStr}
    /\ file.kind = "json"
    /\ MatchingNets(file, detected.node_name) # {}
    /\ detected.out.kind = "pair"

\* The descriptor-based detection result as auto_detect reports it.
DescriptorResult(f, node_name) ==
    LET polar == find_polar_node(f, node_name)
    IN CASE polar.kind = "found" -> ReturnsPair(polar.lnd_dir, polar.rest_host)
         [] polar.kind = "raise" -> polar
         [] OTHER -> ReturnsPair(None, None)

ExactlyOneSet(e) == (e.LND_DIR # None) # (e.REST_HOST # None)

\* C3: with exactly one override variable set, auto_detect gives what it
\* gives with neither set, which is the descriptor-based result, and the
\* set variable's value is in neither component.
C3_PartialOverrideIgnored ==
    (detected.op = "auto_detect" /\ ExactlyOneSet(env))
    => /\ detected.out = auto_detect(EnvUnset, file, detected.node_name)
       /\ detected.out = DescriptorResult(file, detected.node_name)
       /\ detected.consulted
       /\ \A v \in {env.LND_DIR, env.REST_HOST} \ {None} :
            /\ detected.out.lnd_dir \notin {v, expanduser(v)}
            /\ detected.out.rest_host # v

\* C3: auto_detect was called with only LND_DIR set, to a non-empty value,
\* on a descriptor with a matching node.
C3_Witness ==
    /\ detected.op = "auto_detect"
    /\ env.LND_DIR = EnvDir
    /\ env.REST_HOST = None
    /\ file.kind = "json"
    /\ MatchingNets(file, detected.node_name) # {}
    /\ detected.out.kind = "pair"
    /\ detected.out.lnd_dir # None

\* C4: resolution never raises, and on a missing, unreadable or unparsable
\* file, or one with no networks, it yields nothing: None from
\* find_polar_node, (None, None) from auto_detect without the override.
C4_NeverRaises ==
    /\ detected.out.kind # "raise"
    /\ (detected.op = "find_polar_node" /\ file \in BrokenFiles)
          => detected.out = ReturnsNone
    /\ (detected.op = "auto_detect" /\ file \in BrokenFiles /\ ~OverrideTaken(env))
          => detected.out = ReturnsPair(None, None)

\* C4: on the files with nothing to detect, resolution yields nothing.
C4_BrokenFilesYieldNothing ==
    /\ (detected.op = "find_polar_node" /\ file \in BrokenFiles)
          => detected.out = ReturnsNone
    /\ (detected.op = "auto_detect" /\ file \in BrokenFiles /\ ~OverrideTaken(env))
          => detected.out = ReturnsPair(None, None)

\* C5: with the overrides not both set, auto_detect returns a pair that is
\* not (None, None) exactly when some network has a matching entry, and the
\* pair is then built from the first matching entry of a network.
C5_FoundIffMatch ==
    (/\ detected.op = "auto_detect"
     /\ (env.LND_DIR = None \/ env.REST_HOST = None)
     /\ file.kind = "json")
    => /\ (detected.out.kind = "pair" /\ detected.out.lnd_dir # None)
            <=> MatchingNets(file, detected.node_name) # {}
       /\ (detected.out.kind = "pair" /\ detected.out.lnd_dir # None)
            => \E i \in MatchingNets(file, detected.node_name) :
                 LET built == BuildResult(file.networks[i],
                         file.networks[i].lightning[
                             FirstMatching(file.networks[i], detected.node_name)])
                 IN detected.out = ReturnsPair(built.lnd_dir, built.rest_host)

\* C5, on the descriptors whose ids are all numeric.
C5_FoundIffMatchOnNumericIds ==
    (\A i \in 1..Len(file.networks) : IntDefined(file.networks[i].id))
    => C5_FoundIffMatch

\* C4: a call of auto_detect raised on a descriptor that parses.
C4_Witness ==
    /\ detected.op = "auto_detect"
    /\ file.kind = "json"
    /\ detected.out.kind = "raise"
    /\ detected.out.exc = "ValueError"

\* C5: a call of auto_detect without override raised although a network has
\* a matching entry.
C5_Witness ==
    /\ detected.op = "auto_detect"
    /\ env = EnvUnset
    /\ file.kind = "json"
    /\ MatchingNets(file, detected.node_name) # {}
    /\ detected.out.kind = "raise"

\* The directory and URL as stated, for a network path p, a node name and a
\* port.
StatedDir(p, name) == join(join(join(p, VOLUMES), LND_SUBDIR), name)
StatedUrl(port) == HTTPS_LOOPBACK \o IntToStr(port)
StatedDefaultPath(net) == HOME \o Tail(POLAR_NETWORKS_DIR) \o FormatId(net.id)
StatedPort(node) == IF node.rest.has THEN node.rest.v ELSE 8082

\* The directory and URL of the last call when it found a node ("none"
\* otherwise).
FoundPair ==
    CASE detected.op = "find_polar_node" /\ detected.out.kind = "found" ->
              <<detected.out.lnd_dir, detected.out.rest_host>>
      [] detected.op = "auto_detect" /\ ~OverrideTaken(env)
            /\ detected.out.kind = "pair" /\ detected.out.lnd_dir # None ->
              <<detected.out.lnd_dir, detected.out.rest_host>>
      [] OTHER -> <<None, None>>

\* C6 (as stated): the directory of a matched node is
\* <network-path>/volumes/lnd/<node-name>, network-path being the path field
\* or, when the key is missing, ~/.polar/networks/<id> expanded, and the URL
\* is https://127.0.0.1:<ports.rest or 8082>.
C6_DirAndUrl ==
    FoundPair # <<None, None>>
    => \E i \in MatchingNets(file, detected.node_name) :
         LET net == file.networks[i]
             node == net.lightning[FirstMatching(net, detected.node_name)]
             p == IF net.path.has THEN net.path.v ELSE StatedDefaultPath(net)
         IN FoundPair = <<StatedDir(p, node.name.v), StatedUrl(StatedPort(node))>>

\* C6 (amended): as C6, the default network path being used when the path
\* key is missing or holds an empty value.
C6_DirAndUrlEmptyPathDefaults ==
    FoundPair # <<None, None>>
    => \E i \in MatchingNets(file, detected.node_name) :
         LET net == file.networks[i]
             node == net.lightning[FirstMatching(net, detected.node_name)]
             p == IF net.path.has /\ net.path.v # EmptyStr
                  THEN net.path.v ELSE StatedDefaultPath(net)
         IN FoundPair = <<StatedDir(p, node.name.v), StatedUrl(StatedPort(node))>>

\* C6: a node was found in a network (id 7) whose descriptor omits the path,
\* the node's ports having no "rest" entry.
C6_Witness ==
    /\ FoundPair # <<None, None>>
    /\ file.kind = "json"
    /\ Len(file.networks) = 1
    /\ ~file.networks[1].path.has
    /\ file.networks[1].id = IdInt(7)
    /\ FoundPair[2] = StatedUrl(8082)

---------------------------------------------------------------------------
(* The client's life: import of lnd_client, construction, requests.        *)

ExplicitDir == <<"/", "x">>
ExplicitHost == <<"h", "t", "t", "p", "s", ":", "/", "/", "e", ":", "2">>

DirArgs == {None, EmptyStr, ExplicitDir}
HostArgs == {None, ExplicitHost}

Methods == {"GET", "POST", "DELETE", "PUT"}
Endpoints == {<<"/", "v", "1", "/", "g", "e", "t", "i", "n", "f", "o">>,
              <<"/", "v", "1", "/", "i", "n", "v", "o", "i", "c", "e", "s">>}
Statuses == {200, 304, 404, 503}
Answers ==
    {ServerAnswer(s, v, 1) : s \in Statuses, v \in BOOLEAN} \cup {NoAnswer}

\* Descriptor files of the client's life: none, one with a node "bob", one
\* whose id int() rejects.
ClientFiles ==
    {NoDescriptor("missing"),
     Descriptor(<<Network(IdInt(1), Some(STARTED), NoKey, <<NodeBob>>)>>),
     Descriptor(<<Network(IdStr(<<"a", "b", "c">>), Some(STARTED), NoKey,
                          <<NodeBob>>)>>)}

\* The macaroon files on disk: under the default directory, under the
\* explicit directory (an empty file) and under the detected directory.
MacaroonFiles ==
    {MacaroonFile(expanduser(DEFAULT_DIR), <<1, 171>>),
     MacaroonFile(ExplicitDir, <<>>),
     MacaroonFile(BuildResult(Network(IdInt(1), Some(STARTED), NoKey, <<NodeBob>>),
                              NodeBob).lnd_dir, <<222>>)}

\* os.environ[var] = value, or del os.environ[var] (value None), by the
\* program's user before or after the import.
SetEnv(var, value) ==
    /\ env[var] # value
    /\ env' = [env EXCEPT ![var] = value]
    /\ UNCHANGED <<file, macaroons, detected, module, client, http, calls, resp>>

\* Polar rewrites (or removes) networks.json.
WriteDescriptor(f) ==
    /\ file # f
    /\ file' = f
    /\ UNCHANGED <<env, macaroons, detected, module, client, http, calls, resp>>

\* `import lnd_client`: runs once; a failed import can be tried again.
Import ==
    /\ module.state # "loaded"
    /\ module' = ImportedModule(env, file)
    /\ UNCHANGED <<env, file, macaroons, detected, client, http, calls, resp>>

\* LNDClient(lnd_dir, rest_host)
Construct(lnd_dir_arg, rest_host_arg) ==
    /\ module.state = "loaded"
    /\ client' = InitClient(lnd_dir_arg, rest_host_arg)
    /\ http' = 0
    /\ calls' = 0
    /\ resp' = NoResponse
    /\ UNCHANGED <<env, file, macaroons, detected, module>>

\* client._request(method, endpoint)
CallRequest(method, endpoint, answer) ==
    /\ client.state = "built"
    /\ calls < MaxCalls
    /\ resp' = Request(client, method, endpoint, answer)
    /\ http' = IF resp'.issued THEN http + 1 ELSE http
    /\ calls' = calls + 1
    /\ UNCHANGED <<env, file, macaroons, detected, module, client>>

Init ==
    /\ env = EnvUnset
    /\ file = NoDescriptor("missing")
    /\ macaroons = {}
    /\ detected = NotCalled
    /\ module = NoModule
    /\ client = NoClient
    /\ http = 0
    /\ calls = 0
    /\ resp = NoResponse

Next ==
    \/ \E v \in {None, EmptyStr, EnvDir} : SetEnv("LND_DIR", v)
    \/ \E v \in {None, EnvHost} : SetEnv("REST_HOST", v)
    \/ \E f \in ClientFiles : WriteDescriptor(f)
    \/ Import
    \/ \E d \in DirArgs, h \in HostArgs : Construct(d, h)

Spec == Init /\ [][Next]_vars

InitRequest ==
    /\ env = EnvUnset
    /\ file \in {NoDescriptor("missing"),
                 Descriptor(<<Network(IdInt(1), Some(STARTED), NoKey, <<NodeBob>>)>>)}
    /\ macaroons \in SUBSET MacaroonFiles
    /\ detected = NotCalled
    /\ module = ImportedModule(env, file)
    /\ client = NoClient
    /\ http = 0
    /\ calls = 0
    /\ resp = NoResponse

NextRequest ==
    \/ \E d \in {None, ExplicitDir}, h \in {None, ExplicitHost} : Construct(d, h)
    \/ \E m \in Methods, e \in Endpoints, a \in Answers : CallRequest(m, e, a)

SpecRequest == InitRequest /\ [][NextRequest]_vars

---------------------------------------------------------------------------
(* Properties of the client, checked under Spec and SpecRequest.           *)

\* The client's node directory has no admin.macaroon.
LacksMacaroon ==
    ~\E m \in macaroons : m.path = MacaroonFile(client.lnd_dir, <<>>).path

\* C7: a client built on a directory without the token file has no token,
\* and each of its _request calls, however many, raises the ConnectionError
\* naming that directory without issuing an HTTP request.
C7_MissingTokenAlwaysFails ==
    (client.state = "built" /\ LacksMacaroon)
    => /\ client.macaroon = None
       /\ http = 0
       /\ calls > 0 => /\ resp.kind = "raise"
                       /\ resp.exc = "ConnectionError"
                       /\ resp.lnd_dir = client.lnd_dir
                       /\ ~resp.issued

\* C7: a second or later call on a client without token has failed.
C7_Witness ==
    /\ client.state = "built"
    /\ LacksMacaroon
    /\ calls >= 2
    /\ resp.exc = "ConnectionError"
    /\ resp.lnd_dir = client.lnd_dir

\* The resolver's result the import of lnd_client got.
ResolvedAtImport == auto_detect(module.env0, module.file0, BOB)

\* The hardcoded defaults.
HardcodedDir == HOME \o Tail(DEFAULT_DIR)
HardcodedHost == DEFAULT_HOST

\* C8 (as stated): each of the client's directory and base URL is the
\* explicit argument when one is passed, else the resolver's result, else
\* the hardcoded default.
C8_Precedence ==
    client.state = "built"
    => /\ client.lnd_dir =
            IF client.lnd_dir_arg # None THEN client.lnd_dir_arg
            ELSE IF ResolvedAtImport.lnd_dir # None THEN ResolvedAtImport.lnd_dir
            ELSE HardcodedDir
       /\ client.rest_host =
            IF client.rest_host_arg # None THEN client.rest_host_arg
            ELSE IF ResolvedAtImport.rest_host # None THEN ResolvedAtImport.rest_host
            ELSE HardcodedHost

\* C8 (amended): each of the client's directory and base URL is the explicit
\* argument when a non-empty one is passed, else the resolver's result, else
\* (the resolver having yielded (None, None)) the hardcoded default.
C8_PrecedenceNonEmptyArgs ==
    client.state = "built"
    => /\ ResolvedAtImport.kind = "pair"
       /\ (ResolvedAtImport.lnd_dir = None) = (ResolvedAtImport.rest_host = None)
       /\ client.lnd_dir =
            IF client.lnd_dir_arg \notin {None, EmptyStr} THEN client.lnd_dir_arg
            ELSE IF ResolvedAtImport.lnd_dir # None THEN ResolvedAtImport.lnd_dir
            ELSE HardcodedDir
       /\ client.rest_host =
            IF client.rest_host_arg \notin {None, EmptyStr} THEN client.rest_host_arg
            ELSE IF ResolvedAtImport.rest_host # None THEN ResolvedAtImport.rest_host
            ELSE HardcodedHost

\* C8: a client built with an explicit directory and no explicit base URL
\* while the resolver had found a node.
C8_Witness ==
    /\ client.state = "built"
    /\ client.lnd_dir_arg = ExplicitDir
    /\ client.rest_host_arg = None
    /\ ResolvedAtImport.rest_host # None
    /\ client.lnd_dir = ExplicitDir
    /\ client.rest_host = ResolvedAtImport.rest_host

\* An answer reached the client's last call.
Answered == resp.issued /\ resp.answer.status # 0

\* C9 (as stated): with a token and a supported method, an answer whose
\* status is not a success (2xx) raises an error (for 503, one carrying 503
\* and the body) and returns nothing, and only a success status returns the
\* parsed body.
C9_NonSuccessRaises ==
    Answered
    => /\ resp.answer.status \notin 200..299 => resp.kind = "raise"
       /\ resp.answer.status = 503
            => /\ resp.exc = "HTTPError"
               /\ resp.status = 503
               /\ resp.body = resp.answer.body
       /\ resp.kind = "return"
            => resp.answer.status \in 200..299 /\ resp.body = resp.answer.body

\* C9 (amended): with a token and a supported method, an answer whose status
\* is 4xx or 5xx raises an error carrying the status and the body; any other
\* status returns the parsed body when the body is valid JSON.
C9_ErrorStatusRaises ==
    Answered
    => /\ Truthy(client.macaroon)
       /\ resp.method \in {"GET", "POST", "DELETE"}
       /\ resp.answer.status \in 400..599
            => /\ resp.kind = "raise"
               /\ resp.exc = "HTTPError"
               /\ resp.status = resp.answer.status
               /\ resp.body = resp.answer.body
       /\ resp.kind = "return"
            <=> (resp.answer.status \notin 400..599 /\ resp.answer.valid)
       /\ resp.kind = "return" => resp.body = resp.answer.body

\* C9: a call answered 503 raised an HTTPError carrying 503.
C9_Witness ==
    /\ Answered
    /\ resp.answer.status = 503
    /\ resp.kind = "raise"
    /\ resp.exc = "HTTPError"
    /\ resp.status = 503

\* The client was built without explicit arguments.
BuiltWithDefaults ==
    /\ client.state = "built"
    /\ client.lnd_dir_arg = None
    /\ client.rest_host_arg = None

\* C10 (as stated): a client built without explicit arguments gets the
\* resolution result for the environment and the descriptor file as they are
\* at its construction.
C10_DefaultsResolvedAtConstruction ==
    LET now == auto_detect(client.env1, client.file1, BOB)
    IN (BuiltWithDefaults /\ now.kind = "pair")
       => /\ client.lnd_dir = IF now.lnd_dir # None THEN now.lnd_dir ELSE HardcodedDir
          /\ client.rest_host =
                IF now.rest_host # None THEN now.rest_host ELSE HardcodedHost

\* C10 (amended): a client built without explicit arguments gets the
\* resolution result for the environment and the descriptor file as they
\* were when lnd_client was imported.
C10_DefaultsResolvedAtImport ==
    BuiltWithDefaults
    => /\ ResolvedAtImport.kind = "pair"
       /\ client.lnd_dir =
            IF ResolvedAtImport.lnd_dir # None THEN ResolvedAtImport.lnd_dir
            ELSE HardcodedDir
       /\ client.rest_host =
            IF ResolvedAtImport.rest_host # None THEN ResolvedAtImport.rest_host
            ELSE HardcodedHost

\* C10: a client built without explicit arguments after the environment
\* changed since the import, whose defaults are not those the resolver gives
\* at the construction.
C10_Witness ==
    /\ BuiltWithDefaults
    /\ client.env1 # module.env0
    /\ auto_detect(client.env1, client.file1, BOB).kind = "pair"
    /\ client.lnd_dir # Or(auto_detect(client.env1, client.file1, BOB).lnd_dir,
                           HardcodedDir)

=============================================================================
